---- MODULE Spec2Model ----
(***************************************************************************)
(* Audio transcription pipeline of AibaPM-Notes.                           *)
(*                                                                         *)
(*   routes/meetings.js           POST /, POST /:id/reprocess, DELETE,     *)
(*                                withTimeout, processMeeting              *)
(*   services/transcription.js    checkAPIQuotaError, transcribeSingleFile,*)
(*                                transcribeChunks, transcribeWithRetry    *)
(*   services/audioChunker.js     splitIntoChunks, processLargeAudio,      *)
(*                                rechunkWithSmallerSize                   *)
(*                                                                         *)
(* One meeting is modelled.  Every call of processMeeting is a run; a run  *)
(* has an outer part (the try/catch around withTimeout), a deadline timer  *)
(* and an inner part (the async function passed to withTimeout), which     *)
(* keeps executing after the timer has settled the race.  Every await of   *)
(* the code is a point where the other runs, the timer and the HTTP        *)
(* handlers may interleave; the code between two awaits is one action.     *)
(* Time is not measured: a timer may fire at any moment while it is armed. *)
(*                                                                         *)
(* The files of the temp directory (converted waveform, chunk files) are   *)
(* the set `disk`; a file is its name (the meeting id and the chunk index) *)
(* and the part of the recording it holds.                                 *)
(*                                                                         *)
(* splitIntoChunks, mergeTranscripts, calculateTimeout and the catch block *)
(* of transcribeSingleFile are also called on their own, for ranges of     *)
(* arguments (SpecPlan, SpecMerge, SpecTimeout, SpecClassify), and the     *)
(* file and row steps of the runs of two meetings are interleaved in       *)
(* SpecPair; the variable `call` holds the state of such a call.           *)
(***************************************************************************)
EXTENDS Integers, Sequences, FiniteSets, TLC

\* ------------------------------------------------------------------------
\* Program constants
\* ------------------------------------------------------------------------
SIZE_THRESHOLD_MB == 24
TARGET_SIZE_MB == 24
CHUNK_DURATION_SECONDS == 600
CHUNK_OVERLAP_SECONDS == 2
\* Variant: the retry loop gives up one attempt earlier.
MAX_RETRIES_Fewer == 5 - 1
MAX_RETRIES == 5
RECHUNK_DURATION == 300
LARGE_FILE_MB == 50
LARGE_FILE_CHUNK_DURATION == 300

\* ------------------------------------------------------------------------
\* Bounds of the model
\* ------------------------------------------------------------------------
\* Slots for runs of the meeting that are active at the same time.
Runs == {1, 2}
\* Reprocess requests the user sends (specification SpecRuns).
MaxReprocess == 1

\* The recordings a meeting is created with: size of the uploaded file, size
\* of the converted mono 16kHz WAV (about 1MB per 33s) and duration in seconds.
Recordings ==
  { [origMB |-> 8,  wavMB |-> 20, dur |-> 650],
    [origMB |-> 10, wavMB |-> 25, dur |-> 800],
    [origMB |-> 40, wavMB |-> 20, dur |-> 650],
    [origMB |-> 40, wavMB |-> 25, dur |-> 800],
    [origMB |-> 50, wavMB |-> 25, dur |-> 800],
    [origMB |-> 90, wavMB |-> 25, dur |-> 800],
    [origMB |-> 40, wavMB |-> 55, dur |-> 1800] }
\* The recordings of the specification with concurrent runs.
RecordingsRuns ==
  { [origMB |-> 8,  wavMB |-> 20, dur |-> 650],
    [origMB |-> 40, wavMB |-> 25, dur |-> 500] }

NoRecording == [origMB |-> 0, wavMB |-> 0, dur |-> 0]

Min(a, b) == IF a <= b THEN a ELSE b
Max(a, b) == IF a >= b THEN a ELSE b

\* ------------------------------------------------------------------------
\* Speech-to-text client: error responses and their classification
\* ------------------------------------------------------------------------
\* An error of the OpenAI client: HTTP status (0: none, a network error), the
\* error code, and the keywords its message contains.
ErrorResponses ==
  { [status |-> 413, code |-> "none", words |-> {}],
    [status |-> 0,   code |-> "none", words |-> {"413"}],
    [status |-> 429, code |-> "none", words |-> {}],
    [status |-> 401, code |-> "none", words |-> {}],
    [status |-> 402, code |-> "none", words |-> {}],
    [status |-> 400, code |-> "insufficient_quota", words |-> {"quota"}],
    [status |-> 500, code |-> "none", words |-> {}],
    [status |-> 0,   code |-> "none", words |-> {}] }
\* The errors the service answers with in the specification with concurrent runs.
ErrorResponsesRuns ==
  { [status |-> 413, code |-> "none", words |-> {}],
    [status |-> 500, code |-> "none", words |-> {}] }

\* The steps other than requests that can fail, named by the error thrown.
Faults ==
  {"NO_API_KEY", "STAT_FAILED", "CONVERT_FAILED", "FAILED_TO_SPLIT",
   "FAILED_TO_SAVE_TRANSCRIPT", "ANALYSIS_FAILED", "FAILED_TO_SAVE_SUMMARY",
   "FAILED_TO_BUILD_INDEX"}
\* The steps that can fail in the specification with concurrent runs.
FaultsRuns == {"FAILED_TO_SPLIT", "ANALYSIS_FAILED"}

\* The user-friendly message, or "null".
checkAPIQuotaError(error) ==
  IF error.status = 429 THEN "RATE_LIMIT"
  ELSE IF error.status = 401 THEN "INVALID_KEY"
  ELSE IF error.status = 402 \/ error.code = "insufficient_quota" THEN "INSUFFICIENT_CREDITS"
  ELSE IF "quota" \in error.words THEN "QUOTA_EXCEEDED"
  ELSE IF "billing" \in error.words THEN "BILLING_ISSUE"
  ELSE "null"

\* The message of the Error that transcribeSingleFile throws for an error of the client.
transcribeSingleFileError(error) ==
  IF checkAPIQuotaError(error) # "null" THEN checkAPIQuotaError(error)
  ELSE IF error.status = 413 \/ "413" \in error.words THEN "PAYLOAD_TOO_LARGE"
  ELSE "FAILED_TO_TRANSCRIBE"

\* The class of the taxonomy that a thrown message stands for.
ErrorClass(message) ==
  CASE message = "PAYLOAD_TOO_LARGE" -> "PayloadTooLarge"
    [] message = "RATE_LIMIT" -> "RateLimited"
    [] message = "INVALID_KEY" -> "Unauthorized"
    [] message \in {"INSUFFICIENT_CREDITS", "QUOTA_EXCEEDED", "BILLING_ISSUE"} -> "QuotaExceeded"
    [] OTHER -> "Unknown"

\* ------------------------------------------------------------------------
\* Chunk planner
\* ------------------------------------------------------------------------
\* Variant: the end of a window is not clamped at the total duration.
ChunkEntry_NoClamp(chunkIndex, startTime, durationSeconds, chunkDuration) ==
  LET endTime == startTime + chunkDuration
      actualDuration == endTime - startTime
  IN [index |-> chunkIndex,
      startTime |-> startTime,
      endTime |-> endTime,
      duration |-> actualDuration,
      seekStart |-> IF chunkIndex > 0 THEN Max(0, startTime - CHUNK_OVERLAP_SECONDS) ELSE startTime,
      seekDuration |-> actualDuration + (IF chunkIndex > 0 THEN CHUNK_OVERLAP_SECONDS ELSE 0)]

\* Variant: the seek position of a later chunk is not clamped at 0.
ChunkEntry_NoSeekClamp(chunkIndex, startTime, durationSeconds, chunkDuration) ==
  LET endTime == Min(startTime + chunkDuration, durationSeconds)
      actualDuration == endTime - startTime
  IN [index |-> chunkIndex,
      startTime |-> startTime,
      endTime |-> endTime,
      duration |-> actualDuration,
      seekStart |-> IF chunkIndex > 0 THEN startTime - CHUNK_OVERLAP_SECONDS ELSE startTime,
      seekDuration |-> actualDuration + (IF chunkIndex > 0 THEN CHUNK_OVERLAP_SECONDS ELSE 0)]

\* The entry splitIntoChunks makes when `chunkIndex` entries exist and the
\* loop variable is startTime.
ChunkEntry(chunkIndex, startTime, durationSeconds, chunkDuration) ==
  LET endTime == Min(startTime + chunkDuration, durationSeconds)
      actualDuration == endTime - startTime
  IN [index |-> chunkIndex,
      startTime |-> startTime,
      endTime |-> endTime,
      duration |-> actualDuration,
      seekStart |-> IF chunkIndex > 0 THEN Max(0, startTime - CHUNK_OVERLAP_SECONDS) ELSE startTime,
      seekDuration |-> actualDuration + (IF chunkIndex > 0 THEN CHUNK_OVERLAP_SECONDS ELSE 0)]

\* Variant: the first plan has the default chunk duration whatever the size.
FirstChunkDuration_Default(fileSizeMB) == CHUNK_DURATION_SECONDS

\* The chunk duration of the first plan of a run.
FirstChunkDuration(fileSizeMB) ==
  IF fileSizeMB >= LARGE_FILE_MB THEN LARGE_FILE_CHUNK_DURATION ELSE CHUNK_DURATION_SECONDS

\* The chunk duration transcribeWithRetry passes to rechunkWithSmallerSize.
RechunkDuration(firstDuration) == RECHUNK_DURATION

\* ------------------------------------------------------------------------
\* Deadline of a run
\* ------------------------------------------------------------------------
BYTES_PER_MB == 1024 * 1024

\* fs.stat of the audio file threw.
StatFailed == 0 - 1

\* Variant: the band of 30MB to 50MB gets the deadline of the band below it.
calculateTimeout_FlatMiddle(size) ==
  IF size = StatFailed THEN 10 * 60 * 1000
  ELSE IF size < 10 * BYTES_PER_MB THEN 5 * 60 * 1000
  ELSE IF size < 50 * BYTES_PER_MB THEN 10 * 60 * 1000
  ELSE IF size < 80 * BYTES_PER_MB THEN 30 * 60 * 1000
  ELSE 45 * 60 * 1000

\* calculateTimeout for a file of `size` bytes: milliseconds.  The code
\* compares fileSizeMB = size / (1024 * 1024), a division by a power of two
\* that is exact, with 10, 30, 50 and 80.
calculateTimeout(size) ==
  IF size = StatFailed THEN 10 * 60 * 1000
  ELSE IF size < 10 * BYTES_PER_MB THEN 5 * 60 * 1000
  ELSE IF size < 30 * BYTES_PER_MB THEN 10 * 60 * 1000
  ELSE IF size < 50 * BYTES_PER_MB THEN 15 * 60 * 1000
  ELSE IF size < 80 * BYTES_PER_MB THEN 30 * 60 * 1000
  ELSE 45 * 60 * 1000

\* ------------------------------------------------------------------------
\* State
\* ------------------------------------------------------------------------
VARIABLES
  meeting,            \* the row of the meeting in the meetings table
  recording,          \* the uploaded audio file the row's audio_path names
  runs,               \* slot -> state of the call of processMeeting in it
  runsStarted,        \* calls of processMeeting made so far
  reprocessAccepted,  \* reprocess requests answered with 'reprocessing started'
  reprocessSent,      \* reprocess requests sent so far
  env,                \* what the collaborators do: the errors the speech-to-text
                      \* service answers with, the steps that can fail, the
                      \* files that cannot be deleted
  call,               \* a call of one of the functions of the services on its
                      \* own: its arguments, its locals and what it returned
  disk                \* the files in the temporary directories: the converted
                      \* waveforms and the chunk files

vars == <<meeting, recording, runs, runsStarted, reprocessAccepted, reprocessSent, env, call, disk>>

\* Values of transcript_path and summary_path.  A path written by a run
\* carries the run's number (the file names carry Date.now()).
NullSlot == [kind |-> "null", run |-> 0, reason |-> "none"]
PathSlot(id) == [kind |-> "path", run |-> id, reason |-> "none"]
ErrorSlot(reason) == [kind |-> "error", run |-> 0, reason |-> reason]

\* duration of a row created by POST / (null)
NullDuration == 0 - 1

NoMeeting == [row |-> "none", duration |-> NullDuration, audio |-> FALSE,
              transcript |-> NullSlot, summary |-> NullSlot]

\* An unused slot.
IdleRun ==
  [id |-> 0,
   outer |-> "idle",        \* processMeeting: idle, calc, await, done, failed
   outerErr |-> "none",     \* the error processMeeting caught
   timer |-> "none",        \* the setTimeout of withTimeout: none, armed, fired
   timeout |-> 0,           \* PROCESSING_TIMEOUT, in milliseconds
   pc |-> "none",           \* the inner async function
   err |-> "none",          \* the error the inner function threw
   errChunk |-> 0 - 1,      \* the chunk index the error message names
   chunkDuration |-> 0,     \* chunk duration of the plan in `chunks`
   startTime |-> 0,         \* splitIntoChunks: loop variable
   chunks |-> << >>,        \* processed.chunks
   drives |-> << >>,        \* chunk durations of the plans driven so far
   i |-> 0,                 \* transcribeChunks: loop variable (of the last drive)
   attempt |-> 0,           \* transcribeChunks: retry loop variable (of the last drive)
   delay |-> 0,             \* transcribeChunks: the delay being waited, in milliseconds
   results |-> << >>,       \* transcribeChunks: results
   inflight |-> {},         \* chunk indexes with a request not yet answered
   reqs |-> 0,              \* requests made for chunk i in this drive
   lastClass |-> "none",    \* class of the last answer, until the next request
   ptlDrives |-> {},        \* numbers of the drives that were answered 413
   duration |-> 0,          \* transcription.duration
   progress |-> << >>,      \* 'transcribing' events of the last drive, as reported
   updated |-> FALSE]       \* step 5 has updated the row

\* The state of a slot when processMeeting is called in it.
NewRun(id) == [IdleRun EXCEPT !.id = id, !.outer = "calc"]

\* No function is called on its own.
NoCall == [fn |-> "none"]

\* The id of the row (lastInsertRowid of the INSERT).
MeetingId == 1

\* A file name: the meeting id it embeds and the chunk index, NoChunk for
\* the converted waveform itself.
NoChunk == 0 - 1

\* Variant: the name of the converted waveform does not embed the id.
wavPath_Shared(meetingId) == [meeting |-> 0, chunk |-> NoChunk]

\* processLargeAudio: meeting-<meetingId>-converted.wav in the temp directory.
wavPath(meetingId) == [meeting |-> meetingId, chunk |-> NoChunk]

\* splitIntoChunks: <basename of wavPath>_chunk<chunkIndex>.wav
chunkPath(wav, chunkIndex) == [wav EXCEPT !.chunk = chunkIndex]

\* processed.chunks.map(c => c.path)
ChunkPaths(wav, chunks) == {chunkPath(wav, chunks[k].index) : k \in 1..Len(chunks)}

\* The files whose unlink fails, for every behaviour of the file system
\* that is considered.
StuckFiles ==
  {{}, {chunkPath(wavPath(MeetingId), 0)}, {wavPath(MeetingId)},
   {chunkPath(wavPath(MeetingId), 1), wavPath(MeetingId)}}

\* The name of a file of the directory, and the names of its files.
Path(file) == [meeting |-> file.meeting, chunk |-> file.chunk]
Paths(files) == {Path(file) : file \in files}

\* Variant: a file that exists is not overwritten.
save_KeepsExisting(files, path, audio) ==
  IF path \in {[meeting |-> file.meeting, chunk |-> file.chunk] : file \in files} THEN files
  ELSE files \cup {[meeting |-> path.meeting, chunk |-> path.chunk, audio |-> audio]}

\* ffmpeg(...).save(path): the file at `path` holds the seconds audio[1] to
\* audio[2] of the recording; a file of that name is overwritten.
save(files, path, audio) ==
  {file \in files : Path(file) # path}
    \cup {[meeting |-> path.meeting, chunk |-> path.chunk, audio |-> audio]}

\* What the file of a plan entry holds: setStartTime(seekStart) and
\* setDuration(seekDuration) on a waveform of durationSeconds.
ChunkAudio(entry, durationSeconds) ==
  <<entry.seekStart, Min(entry.seekStart + entry.seekDuration, durationSeconds)>>

\* fs.unlink(path) with its error caught: what is in the directory afterwards.
unlink(files, path) ==
  IF path \in env.stuck THEN files ELSE {file \in files : Path(file) # path}

\* Variant: the first unlink that fails ends the loop.
cleanupChunks_StopsAtFailure(files, chunkPaths) ==
  {file \in files :
     ~(/\ Path(file) \in chunkPaths
       /\ \A other \in chunkPaths \cap env.stuck : file.chunk < other.chunk)}

\* Variant: no chunk file is deleted.
cleanupChunks_Nothing(files, chunkPaths) == files

\* cleanupChunks: every path is unlinked, a failure is logged and the loop goes on.
cleanupChunks(files, chunkPaths) == {file \in files : Path(file) \notin chunkPaths \ env.stuck}

Init ==
  /\ meeting = NoMeeting
  /\ recording = NoRecording
  /\ runs = [r \in Runs |-> IdleRun]
  /\ runsStarted = 0
  /\ reprocessAccepted = 0
  /\ reprocessSent = 0
  /\ \E stuck \in StuckFiles :
       env = [errors |-> ErrorResponses, faults |-> Faults, stuck |-> stuck]
  /\ call = NoCall
  /\ disk = {}

InitRuns ==
  /\ meeting = NoMeeting
  /\ recording = NoRecording
  /\ runs = [r \in Runs |-> IdleRun]
  /\ runsStarted = 0
  /\ reprocessAccepted = 0
  /\ reprocessSent = 0
  /\ env = [errors |-> ErrorResponsesRuns, faults |-> FaultsRuns, stuck |-> {}]
  /\ call = NoCall
  /\ disk = {}

\* ------------------------------------------------------------------------
\* Record store
\* ------------------------------------------------------------------------
\* updateMeeting.run(title, date, duration, audio_path, transcript_path,
\* summary_path, id): UPDATE ... WHERE id = ?, no effect without the row.
updateMeeting(m, duration, transcript, summary) ==
  IF m.row = "present"
  THEN [m EXCEPT !.duration = duration, !.transcript = transcript, !.summary = summary]
  ELSE m

\* Variant: the catch block keeps the duration of the row.
MarkError_KeepsDuration(m, message) ==
  IF m.row = "present" THEN updateMeeting(m, m.duration, ErrorSlot(message), NullSlot) ELSE m

\* processMeeting, catch block: the row with the error marker.  Reading a
\* field of a missing row throws; that error is caught and logged.
MarkError(m, message) ==
  IF m.row = "present" THEN updateMeeting(m, 0, ErrorSlot(message), NullSlot) ELSE m

\* Variant: step 5 writes the transcript path and leaves the summary path
\* to a later update.
MarkSuccess_TranscriptOnly(m, run) ==
  updateMeeting(m, run.duration, PathSlot(run.id), m.summary)

\* processMeeting, step 5: the row with the results of run `run`.
MarkSuccess(m, run) ==
  updateMeeting(m, run.duration, PathSlot(run.id), PathSlot(run.id))

\* ------------------------------------------------------------------------
\* processMeeting: outer part
\* ------------------------------------------------------------------------
\* A run whose inner function and processMeeting have both finished and whose
\* timer is not pending has no state left: its slot is unused again.
Settle(run) ==
  IF run.pc \in {"done", "failed"} /\ run.outer \in {"done", "failed"} /\ run.timer # "armed"
  THEN IdleRun ELSE run

\* What is left of `run` when transcribeWithRetry is left.
Left(run) ==
  [IdleRun EXCEPT !.id = run.id, !.outer = run.outer, !.outerErr = run.outerErr,
                  !.timer = run.timer, !.timeout = run.timeout, !.updated = run.updated]

\* The inner function of run r, in state `run` and with the row being m,
\* throws `message` (naming chunk `chunk`).  If the race of withTimeout is
\* not settled, the catch block of processMeeting runs.
Throw(r, run, m, message, chunk) ==
  LET inner == [Left(run) EXCEPT !.pc = "failed", !.err = message, !.errChunk = chunk,
                                 !.lastClass = run.lastClass]
  IN IF run.outer = "await"
     THEN /\ runs' = [runs EXCEPT ![r] = Settle([inner EXCEPT !.outer = "failed", !.outerErr = message])]
          /\ meeting' = MarkError(m, message)
     ELSE /\ runs' = [runs EXCEPT ![r] = Settle(inner)]
          /\ meeting' = m

\* The inner function of run r returns: the race resolves unless it is settled.
Return(r, run) ==
  runs' = [runs EXCEPT ![r] = Settle([Left(run) EXCEPT !.pc = "done",
                                         !.outer = IF run.outer = "await" THEN "done" ELSE @])]

\* Variant: the timer callback does not reject the race.
TimerFire_NoReject(r) ==
  /\ runs[r].timer = "armed"
  /\ runs' = [runs EXCEPT ![r] = Settle([@ EXCEPT !.timer = "fired"])]
  /\ UNCHANGED <<meeting, recording, runsStarted, reprocessAccepted, reprocessSent, env, call, disk>>

\* Variant: the timer callback records the timeout whether or not the race
\* is settled.
TimerFire_AlwaysMarks(r) ==
  /\ runs[r].timer = "armed"
  /\ runs' = [runs EXCEPT ![r] = Settle([@ EXCEPT !.timer = "fired",
                                                   !.outer = IF @ = "await" THEN "failed" ELSE @,
                                                   !.outerErr = IF runs[r].outer = "await"
                                                                THEN "TIMED_OUT" ELSE @])]
  /\ meeting' = MarkError(meeting, "TIMED_OUT")
  /\ UNCHANGED <<recording, runsStarted, reprocessAccepted, reprocessSent, env, call, disk>>

\* The deadline timer of run r fires: the race rejects unless it is settled.
TimerFire(r) ==
  /\ runs[r].timer = "armed"
  /\ IF runs[r].outer = "await"
     THEN /\ runs' = [runs EXCEPT ![r] = Settle([@ EXCEPT !.timer = "fired", !.outer = "failed",
                                                          !.outerErr = "TIMED_OUT"])]
          /\ meeting' = MarkError(meeting, "TIMED_OUT")
     ELSE /\ runs' = [runs EXCEPT ![r] = Settle([@ EXCEPT !.timer = "fired"])]
          /\ meeting' = meeting
  /\ UNCHANGED <<recording, runsStarted, reprocessAccepted, reprocessSent, env, call, disk>>

\* What fs.stat of the uploaded file can give calculateTimeout.
StatOutcomes ==
  {recording.origMB * BYTES_PER_MB} \cup (IF "STAT_FAILED" \in env.faults THEN {StatFailed} ELSE {})

\* calculateTimeout returns: withTimeout arms the timer with the deadline and
\* the inner function runs up to the fs.stat of transcribeWithRetry, or throws
\* at once when no API key is configured.
CalcTimeoutDone(r) ==
  /\ runs[r].outer = "calc"
  /\ \E size \in StatOutcomes :
       LET run == [runs[r] EXCEPT !.outer = "await", !.timer = "armed",
                                  !.timeout = calculateTimeout(size)]
       IN \/ /\ runs' = [runs EXCEPT ![r] = [run EXCEPT !.pc = "stat"]]
             /\ meeting' = meeting
          \/ /\ "NO_API_KEY" \in env.faults
             /\ Throw(r, run, meeting, "NO_API_KEY", 0 - 1)
  /\ UNCHANGED <<recording, runsStarted, reprocessAccepted, reprocessSent, env, call, disk>>

\* The request for the whole file (original or converted): index -1.
WholeFile == 0 - 1

\* Variant: the file is sent whole whatever its size.
StatDone_NoThreshold(r) ==
  /\ runs[r].pc = "stat"
  /\ \/ /\ runs' = [runs EXCEPT ![r] = [@ EXCEPT !.pc = "direct", !.inflight = {WholeFile}]]
        /\ meeting' = meeting
     \/ /\ "STAT_FAILED" \in env.faults
        /\ Throw(r, runs[r], meeting, "STAT_FAILED", 0 - 1)
  /\ UNCHANGED <<recording, runsStarted, reprocessAccepted, reprocessSent, env, call, disk>>

\* transcribeWithRetry after fs.stat: the direct request for a file of at
\* most 24MB, processLargeAudio otherwise.
StatDone(r) ==
  /\ runs[r].pc = "stat"
  /\ \/ /\ recording.origMB <= SIZE_THRESHOLD_MB
        /\ runs' = [runs EXCEPT ![r] = [@ EXCEPT !.pc = "direct", !.inflight = {WholeFile}]]
        /\ meeting' = meeting
     \/ /\ recording.origMB > SIZE_THRESHOLD_MB
        /\ runs' = [runs EXCEPT ![r] = [@ EXCEPT !.pc = "convert"]]
        /\ meeting' = meeting
     \/ /\ "STAT_FAILED" \in env.faults
        /\ Throw(r, runs[r], meeting, "STAT_FAILED", 0 - 1)
  /\ UNCHANGED <<recording, runsStarted, reprocessAccepted, reprocessSent, env, call, disk>>

\* The direct request on the original file is answered.
DirectAnswer(r) ==
  /\ runs[r].pc = "direct"
  /\ \/ /\ runs' = [runs EXCEPT ![r] = [Left(@) EXCEPT !.pc = "save", !.duration = recording.dur]]
        /\ meeting' = meeting
     \/ \E error \in env.errors :
          LET message == transcribeSingleFileError(error)
          IN IF message = "PAYLOAD_TOO_LARGE"
             THEN /\ runs' = [runs EXCEPT ![r] = [@ EXCEPT !.pc = "convert", !.inflight = {}]]
                  /\ meeting' = meeting
             ELSE Throw(r, runs[r], meeting, message, 0 - 1)
  /\ UNCHANGED <<recording, runsStarted, reprocessAccepted, reprocessSent, env, call, disk>>

\* Variant: `current` counts from 0.
ProgressEvent_ZeroBased(chunks, i) ==
  [current |-> i, total |-> Len(chunks), chunkIndex |-> chunks[i + 1].index]

\* The 'transcribing' event that iteration i of the loop of transcribeChunks
\* reports before it sends the request of attemptedChunks[i].  The events
\* are recorded as a progress callback receives them; processMeeting passes
\* none, and then they are not delivered to anyone.
ProgressEvent(chunks, i) ==
  [current |-> i + 1, total |-> Len(chunks), chunkIndex |-> chunks[i + 1].index]

\* transcribeChunks is called with the plan of `run`: the first iteration
\* of its loop reports its progress and sends the request for chunk 0.
StartDrive(run) ==
  [run EXCEPT !.pc = "req", !.progress = <<ProgressEvent(run.chunks, 0)>>,
              !.drives = Append(@, run.chunkDuration),
              !.i = 0, !.attempt = 0, !.results = << >>,
              !.inflight = {run.chunks[1].index}, !.reqs = 1, !.lastClass = "none"]

\* processLargeAudio: probe and conversion end, the converted file is
\* written.  A converted file of at most 24MB is sent whole; otherwise
\* splitIntoChunks starts.
ConvertDone(r) ==
  /\ runs[r].pc = "convert"
  /\ \/ /\ recording.wavMB <= TARGET_SIZE_MB
        /\ runs' = [runs EXCEPT ![r] = [@ EXCEPT !.pc = "directWav", !.inflight = {WholeFile}]]
        /\ meeting' = meeting
        /\ disk' = save(disk, wavPath(MeetingId), <<0, recording.dur>>)
     \/ /\ recording.wavMB > TARGET_SIZE_MB
        /\ runs' = [runs EXCEPT ![r] = [@ EXCEPT !.pc = "split",
                                                 !.chunkDuration = FirstChunkDuration(recording.origMB),
                                                 !.chunks = << >>, !.startTime = 0]]
        /\ meeting' = meeting
        /\ disk' = save(disk, wavPath(MeetingId), <<0, recording.dur>>)
     \/ /\ "CONVERT_FAILED" \in env.faults
        /\ Throw(r, runs[r], meeting, "CONVERT_FAILED", 0 - 1)
        /\ disk' = disk
  /\ UNCHANGED <<recording, runsStarted, reprocessAccepted, reprocessSent, env, call>>

\* splitIntoChunks: the extraction of one window ends, its chunk file is
\* written.  After the last window the plan is returned and transcribeChunks
\* is called on it.
SplitStep(r) ==
  /\ runs[r].pc = "split"
  /\ LET run == runs[r]
         entry == ChunkEntry(Len(run.chunks), run.startTime, recording.dur, run.chunkDuration)
         next == [run EXCEPT !.chunks = Append(@, entry), !.startTime = @ + run.chunkDuration]
     IN \/ /\ runs' = [runs EXCEPT ![r] = IF next.startTime < recording.dur
                                          THEN next ELSE StartDrive(next)]
           /\ meeting' = meeting
           /\ disk' = save(disk, chunkPath(wavPath(MeetingId), entry.index),
                           ChunkAudio(entry, recording.dur))
        \/ /\ "FAILED_TO_SPLIT" \in env.faults
           /\ Throw(r, run, meeting, "FAILED_TO_SPLIT", 0 - 1)
           /\ disk' = disk
  /\ UNCHANGED <<recording, runsStarted, reprocessAccepted, reprocessSent, env, call>>

\* The direct request on the converted file is answered.
DirectWavAnswer(r) ==
  /\ runs[r].pc = "directWav"
  /\ \/ /\ runs' = [runs EXCEPT ![r] = [@ EXCEPT !.pc = "unlinkWav", !.inflight = {},
                                                 !.duration = recording.dur]]
        /\ meeting' = meeting
     \/ \E error \in env.errors :
          Throw(r, runs[r], meeting, transcribeSingleFileError(error), 0 - 1)
  /\ UNCHANGED <<recording, runsStarted, reprocessAccepted, reprocessSent, env, call, disk>>

\* The converted file is unlinked (a failure is logged): saveTranscript starts.
UnlinkWavDone(r) ==
  /\ runs[r].pc = "unlinkWav"
  /\ runs' = [runs EXCEPT ![r] = [Left(@) EXCEPT !.pc = "save", !.duration = runs[r].duration]]
  /\ disk' = unlink(disk, wavPath(MeetingId))
  /\ UNCHANGED <<meeting, recording, runsStarted, reprocessAccepted, reprocessSent, env, call>>

\* ------------------------------------------------------------------------
\* Chunk transcription driver (transcribeChunks) and its caller
\* ------------------------------------------------------------------------
\* mergeTranscripts: totalDuration, the maximum of chunk.endTime.
MergedDuration(results) ==
  LET ends == {results[k].chunk.endTime : k \in 1..Len(results)}
  IN IF ends = {} THEN 0 ELSE CHOOSE e \in ends : \A f \in ends : f <= e

\* Variant: the loop steps over a chunk.
NextIndex_Skip(i) == i + 2

\* for (let i = 0; ...; i++)
NextIndex(i) == i + 1

\* Variant: a transcription obtained on a retry is not pushed.
ChunkSucceeded_DropsRetried(run) ==
  LET pushed == IF run.attempt > 0 THEN run.results
                ELSE Append(run.results, [chunk |-> run.chunks[run.i + 1]])
  IN IF NextIndex(run.i) < Len(run.chunks)
     THEN [run EXCEPT !.results = pushed, !.i = NextIndex(run.i), !.attempt = 0,
                      !.progress = Append(@, ProgressEvent(run.chunks, NextIndex(run.i))),
                      !.inflight = {run.chunks[NextIndex(run.i) + 1].index},
                      !.reqs = 1, !.lastClass = "none"]
     ELSE [run EXCEPT !.results = pushed, !.inflight = {}, !.lastClass = "none",
                      !.pc = "cleanup", !.duration = MergedDuration(pushed)]

\* The request for chunk i is answered with a transcription: the result is
\* pushed and the loop goes on with the next chunk, whose iteration reports
\* its progress and sends its request, or transcribeChunks
\* returns, the results are merged and the cleanup starts.
ChunkSucceeded(run) ==
  LET pushed == Append(run.results, [chunk |-> run.chunks[run.i + 1]])
  IN IF NextIndex(run.i) < Len(run.chunks)
     THEN [run EXCEPT !.results = pushed, !.i = NextIndex(run.i), !.attempt = 0,
                      !.progress = Append(@, ProgressEvent(run.chunks, NextIndex(run.i))),
                      !.inflight = {run.chunks[NextIndex(run.i) + 1].index},
                      !.reqs = 1, !.lastClass = "none"]
     ELSE [run EXCEPT !.results = pushed, !.inflight = {}, !.lastClass = "none",
                      !.pc = "cleanup", !.duration = MergedDuration(pushed)]

\* Math.pow(2, n) for a natural number n.
RECURSIVE Pow2(_)
Pow2(n) == IF n = 0 THEN 1 ELSE 2 * Pow2(n - 1)

\* Variant: the first delay is 2.5s.
RetryDelay_FromHalf(attempt) == Pow2(attempt - 1) * 2500

\* The delay before retry `attempt` of a chunk, in milliseconds.
RetryDelay(attempt) == Pow2(attempt) * 2500

\* Variant: the retry loop does not single out PAYLOAD_TOO_LARGE.
IsRetried_Always(message) == TRUE

\* transcribeChunks retries a request that threw `message`.
IsRetried(message) == message # "PAYLOAD_TOO_LARGE"

\* Variant: the second call of transcribeChunks is inside a try of its own.
RechunkCaught_Twice(drive) == drive <= 2

\* transcribeWithRetry catches RECHUNK_NEEDED of drive number `drive`.
RechunkCaught(drive) == drive = 1

\* The request for chunk i is answered with an error.
ChunkFailed(r, run, m, message) ==
  LET answered == [run EXCEPT !.inflight = {}, !.lastClass = ErrorClass(message)]
  IN IF ~IsRetried(message)
     THEN LET flagged == [answered EXCEPT !.ptlDrives = @ \cup {Len(run.drives)},
                                          !.results = << >>, !.reqs = 0]
          IN IF RechunkCaught(Len(run.drives))
             THEN /\ runs' = [runs EXCEPT ![r] = [flagged EXCEPT !.pc = "recleanup"]]
                  /\ meeting' = m
             ELSE Throw(r, flagged, m, "RECHUNK_NEEDED", 0 - 1)
     ELSE IF run.attempt < MAX_RETRIES
          THEN /\ runs' = [runs EXCEPT ![r] = [answered EXCEPT !.pc = "sleep", !.attempt = @ + 1,
                                                               !.delay = RetryDelay(run.attempt + 1)]]
               /\ meeting' = m
          ELSE Throw(r, answered, m, "CHUNK_FAILED_AFTER_RETRIES", run.chunks[run.i + 1].index)

ChunkAnswer(r) ==
  /\ runs[r].pc = "req"
  /\ \/ /\ runs' = [runs EXCEPT ![r] = ChunkSucceeded(runs[r])]
        /\ meeting' = meeting
     \/ \E error \in env.errors :
          ChunkFailed(r, runs[r], meeting, transcribeSingleFileError(error))
  /\ UNCHANGED <<recording, runsStarted, reprocessAccepted, reprocessSent, env, call, disk>>

\* The backoff delay before retry `attempt` ends: the request is sent again.
SleepDone(r) ==
  /\ runs[r].pc = "sleep"
  /\ runs' = [runs EXCEPT ![r] = [@ EXCEPT !.pc = "req", !.delay = 0,
                                           !.inflight = {runs[r].chunks[runs[r].i + 1].index},
                                           !.reqs = @ + 1, !.lastClass = "none"]]
  /\ UNCHANGED <<meeting, recording, runsStarted, reprocessAccepted, reprocessSent, env, call, disk>>

\* cleanupChunks of the failed plan ends: rechunkWithSmallerSize starts.
RecleanupDone(r) ==
  /\ runs[r].pc = "recleanup"
  /\ runs' = [runs EXCEPT ![r] = [@ EXCEPT !.pc = "split",
                                           !.chunkDuration = RechunkDuration(runs[r].chunkDuration),
                                           !.chunks = << >>, !.startTime = 0]]
  /\ disk' = cleanupChunks(disk, ChunkPaths(wavPath(MeetingId), runs[r].chunks))
  /\ UNCHANGED <<meeting, recording, runsStarted, reprocessAccepted, reprocessSent, env, call>>

\* cleanupChunks and the unlink of the converted file end: mergedResult is
\* returned and saveTranscript starts.
CleanupDone(r) ==
  /\ runs[r].pc = "cleanup"
  /\ runs' = [runs EXCEPT ![r] = [Left(@) EXCEPT !.pc = "save", !.duration = runs[r].duration]]
  /\ disk' = unlink(cleanupChunks(disk, ChunkPaths(wavPath(MeetingId), runs[r].chunks)),
                    wavPath(MeetingId))
  /\ UNCHANGED <<meeting, recording, runsStarted, reprocessAccepted, reprocessSent, env, call>>

\* ------------------------------------------------------------------------
\* processMeeting: steps 2 to 7
\* ------------------------------------------------------------------------
SaveTranscriptDone(r) ==
  /\ runs[r].pc = "save"
  /\ \/ /\ runs' = [runs EXCEPT ![r] = [@ EXCEPT !.pc = "analyze"]]
        /\ meeting' = meeting
     \/ /\ "FAILED_TO_SAVE_TRANSCRIPT" \in env.faults
        /\ Throw(r, runs[r], meeting, "FAILED_TO_SAVE_TRANSCRIPT", 0 - 1)
  /\ UNCHANGED <<recording, runsStarted, reprocessAccepted, reprocessSent, env, call, disk>>

AnalyzeDone(r) ==
  /\ runs[r].pc = "analyze"
  /\ \/ /\ runs' = [runs EXCEPT ![r] = [@ EXCEPT !.pc = "saveSummary"]]
        /\ meeting' = meeting
     \/ /\ "ANALYSIS_FAILED" \in env.faults
        /\ Throw(r, runs[r], meeting, "ANALYSIS_FAILED", 0 - 1)
  /\ UNCHANGED <<recording, runsStarted, reprocessAccepted, reprocessSent, env, call, disk>>

\* saveSummary ends.  Steps 5 to 7 have no await: the row is read (a missing
\* row throws a TypeError), updated, the metadata and the search index are
\* written, and the inner function returns, or throws when one of the
\* writes after the update fails.
SaveSummaryDone(r) ==
  /\ runs[r].pc = "saveSummary"
  /\ \/ /\ "FAILED_TO_SAVE_SUMMARY" \in env.faults
        /\ Throw(r, runs[r], meeting, "FAILED_TO_SAVE_SUMMARY", 0 - 1)
     \/ /\ meeting.row # "present"
        /\ Throw(r, runs[r], meeting, "TYPE_ERROR", 0 - 1)
     \/ /\ meeting.row = "present"
        /\ meeting' = MarkSuccess(meeting, runs[r])
        /\ Return(r, [runs[r] EXCEPT !.updated = TRUE])
     \/ /\ meeting.row = "present"
        /\ "FAILED_TO_BUILD_INDEX" \in env.faults
        /\ Throw(r, [runs[r] EXCEPT !.updated = TRUE],
                 MarkSuccess(meeting, runs[r]), "FAILED_TO_BUILD_INDEX", 0 - 1)
  /\ UNCHANGED <<recording, runsStarted, reprocessAccepted, reprocessSent, env, call, disk>>

\* ------------------------------------------------------------------------
\* HTTP handlers
\* ------------------------------------------------------------------------
\* A slot whose run has ended: inner function and processMeeting have
\* finished and the timer is not pending.
Free(r) ==
  /\ runs[r].outer \in {"idle", "done", "failed"}
  /\ runs[r].pc \in {"none", "done", "failed"}
  /\ runs[r].timer # "armed"

\* processMeeting(...) is called: the run takes the first free slot.
StartRun(r) ==
  /\ Free(r)
  /\ \A q \in Runs : Free(q) => r <= q
  /\ runs' = [runs EXCEPT ![r] = NewRun(runsStarted + 1)]
  /\ runsStarted' = runsStarted + 1

\* POST /api/meetings with an audio file.
CreateMeeting(rec) ==
  /\ meeting.row = "none"
  /\ meeting' = [row |-> "present", duration |-> NullDuration, audio |-> TRUE,
                 transcript |-> NullSlot, summary |-> NullSlot]
  /\ recording' = rec
  /\ \E r \in Runs : StartRun(r)
  /\ UNCHANGED <<reprocessAccepted, reprocessSent, env, call, disk>>

\* Variant: the handler clears the row and answers without calling processMeeting.
Reprocess_NoRun ==
  /\ reprocessSent < MaxReprocess
  /\ meeting.row = "present"
  /\ meeting.audio
  /\ meeting' = updateMeeting(meeting, 0, NullSlot, NullSlot)
  /\ reprocessSent' = reprocessSent + 1
  /\ reprocessAccepted' = reprocessAccepted + 1
  /\ UNCHANGED <<recording, runs, runsStarted, env, call, disk>>

\* Variant: the handler starts the run without clearing the row.
Reprocess_KeepsRow ==
  /\ reprocessSent < MaxReprocess
  /\ meeting.row = "present"
  /\ meeting.audio
  /\ meeting' = meeting
  /\ \E r \in Runs : StartRun(r)
  /\ reprocessSent' = reprocessSent + 1
  /\ reprocessAccepted' = reprocessAccepted + 1
  /\ UNCHANGED <<recording, env, call, disk>>

\* POST /api/meetings/:id/reprocess, row found with an audio_path.
Reprocess ==
  /\ reprocessSent < MaxReprocess
  /\ meeting.row = "present"
  /\ meeting.audio
  /\ meeting' = updateMeeting(meeting, 0, NullSlot, NullSlot)
  /\ \E r \in Runs : StartRun(r)
  /\ reprocessSent' = reprocessSent + 1
  /\ reprocessAccepted' = reprocessAccepted + 1
  /\ UNCHANGED <<recording, env, call, disk>>

\* POST /api/meetings/:id/reprocess, answered 404.
ReprocessNotFound ==
  /\ reprocessSent < MaxReprocess
  /\ meeting.row = "deleted"
  /\ reprocessSent' = reprocessSent + 1
  /\ UNCHANGED <<meeting, recording, runs, runsStarted, reprocessAccepted, env, call, disk>>

\* DELETE /api/meetings/:id
DeleteMeeting ==
  /\ meeting.row = "present"
  /\ meeting' = [NoMeeting EXCEPT !.row = "deleted"]
  /\ UNCHANGED <<recording, runs, runsStarted, reprocessAccepted, reprocessSent, env, call, disk>>

\* ------------------------------------------------------------------------
\* Transcript merger (mergeTranscripts)
\* ------------------------------------------------------------------------
\* A text is a sequence of characters; \s matches the space and the newline.
IsWhitespace(c) == c \in {" ", "\n"}

RECURSIVE TrimStart(_)
TrimStart(text) ==
  IF text # << >> /\ IsWhitespace(Head(text)) THEN TrimStart(Tail(text)) ELSE text

RECURSIVE TrimEnd(_)
TrimEnd(text) ==
  IF text # << >> /\ IsWhitespace(text[Len(text)])
  THEN TrimEnd(SubSeq(text, 1, Len(text) - 1)) ELSE text

\* String.prototype.trim
trim(text) == TrimEnd(TrimStart(text))

\* replace(/\s+/g, ' ')
RECURSIVE CollapseWhitespace(_)
CollapseWhitespace(text) ==
  IF text = << >> THEN << >>
  ELSE IF IsWhitespace(Head(text)) THEN <<" ">> \o CollapseWhitespace(TrimStart(text))
  ELSE <<Head(text)>> \o CollapseWhitespace(Tail(text))

\* fullText after the loop: every text followed by a space.
RECURSIVE FullText(_)
FullText(chunkResults) ==
  IF chunkResults = << >> THEN << >>
  ELSE Head(chunkResults).transcription.text \o <<" ">> \o FullText(Tail(chunkResults))

\* Variant: only the start of a segment is shifted.
AdjustSegment_StartOnly(segment, offset) == [segment EXCEPT !.start = @ + offset]

\* { ...segment, start: segment.start + chunk.startTime, end: segment.end + chunk.startTime }
AdjustSegment(segment, offset) ==
  [segment EXCEPT !.start = @ + offset, !.end = @ + offset]

\* Variant: the segments of result k are shifted by the durations of the
\* results before it in the list.
RECURSIVE SegmentOffset_Running(_, _)
SegmentOffset_Running(chunkResults, k) ==
  IF k = 1 THEN 0
  ELSE SegmentOffset_Running(chunkResults, k - 1) + chunkResults[k - 1].chunk.duration

\* What is added to the timestamps of the segments of result k.
SegmentOffset(chunkResults, k) == chunkResults[k].chunk.startTime

\* allSegments after the first k iterations of the loop.
RECURSIVE AllSegments(_, _)
AllSegments(chunkResults, k) ==
  IF k = 0 THEN << >>
  ELSE LET segments == chunkResults[k].transcription.segments
           adjustedSegments ==
             [n \in 1..Len(segments) |->
                AdjustSegment(segments[n], SegmentOffset(chunkResults, k))]
       IN AllSegments(chunkResults, k - 1) \o adjustedSegments

\* mergeTranscripts(chunkResults)
mergeTranscripts(chunkResults) ==
  [text |-> CollapseWhitespace(trim(FullText(chunkResults))),
   language |-> IF chunkResults = << >> \/ chunkResults[1].transcription.language = "undefined"
                THEN "en" ELSE chunkResults[1].transcription.language,
   duration |-> MergedDuration(chunkResults),
   segments |-> AllSegments(chunkResults, Len(chunkResults))]

\* ------------------------------------------------------------------------
\* mergeTranscripts called on its own
\* ------------------------------------------------------------------------
\* The chunks splitIntoChunks returns.
RECURSIVE PlanFrom(_, _, _, _)
PlanFrom(chunks, startTime, durationSeconds, chunkDuration) ==
  IF startTime < durationSeconds
  THEN PlanFrom(Append(chunks, ChunkEntry(Len(chunks), startTime, durationSeconds, chunkDuration)),
                startTime + chunkDuration, durationSeconds, chunkDuration)
  ELSE chunks

\* The plans whose results are merged: three chunks, two chunks, one chunk.
MergePlans ==
  { PlanFrom(<< >>, 0, 1800, 600), PlanFrom(<< >>, 0, 5, 3), PlanFrom(<< >>, 0, 2, 3) }

\* The texts of the transcriptions: of a silent chunk, plain, with leading
\* and with trailing whitespace, with a run of whitespace inside.
Texts ==
  { << >>, <<"a">>, <<" ", "a">>, <<"b", "\n">>, <<"a", "\n", " ", "b">> }

Languages == {"de", "undefined"}

\* The segments of the transcription of a chunk file: none, one that starts
\* with the file, one in its last second, or both.  Segments are ordered and
\* lie within the seekDuration seconds of the file.
SegmentShapes == {"none", "first", "last", "both"}
Segments(chunk, shape) ==
  LET first == [id |-> <<chunk.index, 1>>, start |-> 0, end |-> 1]
      last == [id |-> <<chunk.index, 2>>, start |-> chunk.seekDuration - 1,
               end |-> chunk.seekDuration]
  IN CASE shape = "none" -> << >>
       [] shape = "first" -> <<first>>
       [] shape = "last" -> <<last>>
       [] shape = "both" -> <<first, last>>

\* No meeting, no run, and one call of mergeTranscripts with the results of
\* a drive over a plan.
InitMerge ==
  /\ meeting = NoMeeting
  /\ recording = NoRecording
  /\ runs = [r \in Runs |-> IdleRun]
  /\ runsStarted = 0
  /\ reprocessAccepted = 0
  /\ reprocessSent = 0
  /\ env = [errors |-> ErrorResponses, faults |-> Faults, stuck |-> {}]
  /\ disk = {}
  /\ \E chunks \in MergePlans, language \in Languages :
       \E texts \in [1..Len(chunks) -> Texts], shapes \in [1..Len(chunks) -> SegmentShapes] :
         LET chunkResults ==
               [k \in 1..Len(chunks) |->
                  [chunk |-> chunks[k],
                   transcription |-> [text |-> texts[k], language |-> language,
                                      segments |-> Segments(chunks[k], shapes[k])]]]
         IN call = [fn |-> "mergeTranscripts", given |-> chunkResults,
                    chunkResults |-> chunkResults, pc |-> "called",
                    result |-> mergeTranscripts(<< >>), k |-> 0,
                    left |-> mergeTranscripts(<< >>), right |-> mergeTranscripts(<< >>)]

\* mergeTranscripts returns; it builds new segments and writes nothing to
\* its argument.
MergeReturn ==
  /\ call.fn = "mergeTranscripts"
  /\ call.pc = "called"
  /\ call' = [call EXCEPT !.pc = "returned", !.result = mergeTranscripts(call.chunkResults)]
  /\ UNCHANGED <<meeting, recording, runs, runsStarted, reprocessAccepted, reprocessSent, env, disk>>

\* mergeTranscripts is called on the first k results and on the others.
MergeParts(k) ==
  /\ call.fn = "mergeTranscripts"
  /\ call.pc = "returned"
  /\ k < Len(call.chunkResults)
  /\ call' = [call EXCEPT !.pc = "parts", !.k = k,
                          !.left = mergeTranscripts(SubSeq(call.chunkResults, 1, k)),
                          !.right = mergeTranscripts(SubSeq(call.chunkResults, k + 1,
                                                            Len(call.chunkResults)))]
  /\ UNCHANGED <<meeting, recording, runs, runsStarted, reprocessAccepted, reprocessSent, env, disk>>

\* ------------------------------------------------------------------------
\* splitIntoChunks called on its own
\* ------------------------------------------------------------------------
\* Total durations and chunk durations of the calls, in seconds.
MaxPlanDuration == 9
MaxPlanChunk == 4
PlanInputs ==
  {[durationSeconds |-> d, chunkDuration |-> c] : d \in 1..MaxPlanDuration, c \in 1..MaxPlanChunk}
    \cup {[durationSeconds |-> 1800, chunkDuration |-> 600],
          [durationSeconds |-> 1800, chunkDuration |-> 300],
          [durationSeconds |-> 650,  chunkDuration |-> 600]}

\* splitIntoChunks(wavPath, durationSeconds, chunkDuration) at the test of its loop.
SplitCall(durationSeconds, chunkDuration) ==
  [fn |-> "splitIntoChunks", durationSeconds |-> durationSeconds,
   chunkDuration |-> chunkDuration, startTime |-> 0, chunks |-> << >>, pc |-> "loop"]

\* No meeting, no run, and one call of splitIntoChunks.
InitPlan ==
  /\ meeting = NoMeeting
  /\ recording = NoRecording
  /\ runs = [r \in Runs |-> IdleRun]
  /\ runsStarted = 0
  /\ reprocessAccepted = 0
  /\ reprocessSent = 0
  /\ env = [errors |-> ErrorResponses, faults |-> Faults, stuck |-> {}]
  /\ disk = {}
  /\ \E input \in PlanInputs : call = SplitCall(input.durationSeconds, input.chunkDuration)

\* One iteration of the loop: the window is extracted and its entry pushed;
\* after the last window the chunks are returned.
SplitCallStep ==
  /\ call.fn = "splitIntoChunks"
  /\ call.pc = "loop"
  /\ LET entry == ChunkEntry(Len(call.chunks), call.startTime, call.durationSeconds,
                             call.chunkDuration)
         next == [call EXCEPT !.chunks = Append(@, entry), !.startTime = @ + call.chunkDuration]
     IN call' = IF next.startTime < call.durationSeconds THEN next
                ELSE [next EXCEPT !.pc = "returned"]
  /\ UNCHANGED <<meeting, recording, runs, runsStarted, reprocessAccepted, reprocessSent, env, disk>>

\* Variant: the error of a window is caught and the chunks made so far are
\* returned.
SplitCallThrow_ReturnsPartial ==
  /\ call.fn = "splitIntoChunks"
  /\ call.pc = "loop"
  /\ call' = [call EXCEPT !.pc = "returned"]
  /\ UNCHANGED <<meeting, recording, runs, runsStarted, reprocessAccepted, reprocessSent, env, disk>>

\* The extraction of a window fails: 'Failed to split audio' is thrown and
\* the caller gets no chunks.
SplitCallThrow ==
  /\ call.fn = "splitIntoChunks"
  /\ call.pc = "loop"
  /\ call' = [call EXCEPT !.pc = "thrown", !.chunks = << >>]
  /\ UNCHANGED <<meeting, recording, runs, runsStarted, reprocessAccepted, reprocessSent, env, disk>>

\* ------------------------------------------------------------------------
\* The runs of two meetings
\* ------------------------------------------------------------------------
\* Two rows of the meetings table, each with the run its creation started.
\* Both recordings are converted and split; `call` holds the two rows and
\* what transcribeWithRetry has in its locals for each meeting.
Meetings == {1, 2}
PairRecording == [origMB |-> 40, wavMB |-> 25, dur |-> 800]

\* UPDATE meetings SET ... WHERE id = ?
updateMeetingById(rows, id, row) == [rows EXCEPT ![id] = row]

PairRun(pc) ==
  [pc |-> pc, chunkDuration |-> 0, startTime |-> 0, chunks |-> << >>, drives |-> 0]

InitPair ==
  /\ meeting = NoMeeting
  /\ recording = PairRecording
  /\ runs = [r \in Runs |-> IdleRun]
  /\ runsStarted = 0
  /\ reprocessAccepted = 0
  /\ reprocessSent = 0
  /\ env = [errors |-> ErrorResponses, faults |-> Faults, stuck |-> {}]
  /\ disk = {}
  /\ call = [fn |-> "processMeeting",
             rows |-> [m \in Meetings |->
                         [row |-> "present", duration |-> NullDuration, audio |-> TRUE,
                          transcript |-> NullSlot, summary |-> NullSlot]],
             run |-> [m \in Meetings |-> PairRun("convert")]]

\* The run of meeting m throws: the catch block of processMeeting marks the
\* row of m.
PairThrow(m, message) ==
  /\ call' = [call EXCEPT !.run[m] = PairRun("failed"),
                          !.rows = updateMeetingById(@, m, MarkError(call.rows[m], message))]
  /\ disk' = disk

\* processLargeAudio for meeting m: the conversion ends.
PairConvertDone(m) ==
  /\ call.fn = "processMeeting"
  /\ call.run[m].pc = "convert"
  /\ \/ /\ call' = [call EXCEPT !.run[m] = [@ EXCEPT !.pc = "split",
                                !.chunkDuration = FirstChunkDuration(recording.origMB)]]
        /\ disk' = save(disk, wavPath(m), <<0, recording.dur>>)
     \/ PairThrow(m, "CONVERT_FAILED")
  /\ UNCHANGED <<meeting, recording, runs, runsStarted, reprocessAccepted, reprocessSent, env>>

\* splitIntoChunks for meeting m: the extraction of one window ends.
PairSplitStep(m) ==
  /\ call.fn = "processMeeting"
  /\ call.run[m].pc = "split"
  /\ LET run == call.run[m]
         entry == ChunkEntry(Len(run.chunks), run.startTime, recording.dur, run.chunkDuration)
         next == [run EXCEPT !.chunks = Append(@, entry), !.startTime = @ + run.chunkDuration]
     IN \/ /\ call' = [call EXCEPT !.run[m] =
                         IF next.startTime < recording.dur THEN next
                         ELSE [next EXCEPT !.pc = "drive", !.drives = @ + 1]]
           /\ disk' = save(disk, chunkPath(wavPath(m), entry.index),
                           ChunkAudio(entry, recording.dur))
        \/ PairThrow(m, "FAILED_TO_SPLIT")
  /\ UNCHANGED <<meeting, recording, runs, runsStarted, reprocessAccepted, reprocessSent, env>>

\* transcribeChunks for meeting m ends: with the results, with
\* RECHUNK_NEEDED, or with the error of an exhausted chunk.
PairDriveDone(m) ==
  /\ call.fn = "processMeeting"
  /\ call.run[m].pc = "drive"
  /\ \/ /\ call' = [call EXCEPT !.run[m] = [@ EXCEPT !.pc = "cleanup"]]
        /\ disk' = disk
     \/ /\ RechunkCaught(call.run[m].drives)
        /\ call' = [call EXCEPT !.run[m] = [@ EXCEPT !.pc = "recleanup"]]
        /\ disk' = disk
     \/ /\ ~RechunkCaught(call.run[m].drives)
        /\ PairThrow(m, "RECHUNK_NEEDED")
     \/ PairThrow(m, "CHUNK_FAILED_AFTER_RETRIES")
  /\ UNCHANGED <<meeting, recording, runs, runsStarted, reprocessAccepted, reprocessSent, env>>

\* cleanupChunks of the first plan of meeting m ends.
PairRecleanupDone(m) ==
  /\ call.fn = "processMeeting"
  /\ call.run[m].pc = "recleanup"
  /\ call' = [call EXCEPT !.run[m] = [@ EXCEPT !.pc = "split",
                             !.chunkDuration = RechunkDuration(call.run[m].chunkDuration),
                             !.chunks = << >>, !.startTime = 0]]
  /\ disk' = cleanupChunks(disk, ChunkPaths(wavPath(m), call.run[m].chunks))
  /\ UNCHANGED <<meeting, recording, runs, runsStarted, reprocessAccepted, reprocessSent, env>>

\* The final cleanupChunks and unlink of meeting m end.
PairCleanupDone(m) ==
  /\ call.fn = "processMeeting"
  /\ call.run[m].pc = "cleanup"
  /\ call' = [call EXCEPT !.run[m] = [PairRun("saveSummary") EXCEPT !.drives = call.run[m].drives]]
  /\ disk' = unlink(cleanupChunks(disk, ChunkPaths(wavPath(m), call.run[m].chunks)), wavPath(m))
  /\ UNCHANGED <<meeting, recording, runs, runsStarted, reprocessAccepted, reprocessSent, env>>

\* Steps 2 to 7 of processMeeting for meeting m end.
PairSaveSummaryDone(m) ==
  /\ call.fn = "processMeeting"
  /\ call.run[m].pc = "saveSummary"
  /\ \/ /\ call' = [call EXCEPT !.run[m] = PairRun("done"),
                                !.rows = updateMeetingById(@, m,
                                           MarkSuccess(call.rows[m],
                                                       [id |-> m, duration |-> recording.dur]))]
        /\ disk' = disk
     \/ PairThrow(m, "ANALYSIS_FAILED")
  /\ UNCHANGED <<meeting, recording, runs, runsStarted, reprocessAccepted, reprocessSent, env>>

\* ------------------------------------------------------------------------
\* The catch block of transcribeSingleFile on its own
\* ------------------------------------------------------------------------
\* The errors of the client: every status, code and set of keywords in the
\* message.
Statuses == {0, 400, 401, 402, 413, 429, 500}
Codes == {"none", "insufficient_quota"}
Keywords == {"413", "quota", "billing", "credit"}

\* No meeting, no run, and one request that the client answers with an error.
InitClassify ==
  /\ meeting = NoMeeting
  /\ recording = NoRecording
  /\ runs = [r \in Runs |-> IdleRun]
  /\ runsStarted = 0
  /\ reprocessAccepted = 0
  /\ reprocessSent = 0
  /\ env = [errors |-> ErrorResponses, faults |-> Faults, stuck |-> {}]
  /\ disk = {}
  /\ \E status \in Statuses, code \in Codes, words \in SUBSET Keywords :
       call = [fn |-> "transcribeSingleFile",
               error |-> [status |-> status, code |-> code, words |-> words],
               pc |-> "caught", thrown |-> "none"]

\* The catch block throws the Error the callers see.
ClassifyThrow ==
  /\ call.fn = "transcribeSingleFile"
  /\ call.pc = "caught"
  /\ call' = [call EXCEPT !.pc = "thrown", !.thrown = transcribeSingleFileError(call.error)]
  /\ UNCHANGED <<meeting, recording, runs, runsStarted, reprocessAccepted, reprocessSent, env, disk>>

\* ------------------------------------------------------------------------
\* calculateTimeout called on its own
\* ------------------------------------------------------------------------
\* The sizes of the files, in bytes: every whole number of MB up to
\* MaxFileMB, one byte less and one byte more.
MaxFileMB == 100
FileSizes ==
  {m * BYTES_PER_MB + d : m \in 0..MaxFileMB, d \in {0 - 1, 0, 1}} \ {0 - 1}

\* No meeting, no run, and one call of calculateTimeout for a file of some
\* size or for a file whose stat fails.
InitTimeout ==
  /\ meeting = NoMeeting
  /\ recording = NoRecording
  /\ runs = [r \in Runs |-> IdleRun]
  /\ runsStarted = 0
  /\ reprocessAccepted = 0
  /\ reprocessSent = 0
  /\ env = [errors |-> ErrorResponses, faults |-> Faults, stuck |-> {}]
  /\ disk = {}
  /\ \E size \in FileSizes \cup {StatFailed} :
       call = [fn |-> "calculateTimeout", size |-> size, pc |-> "called", result |-> 0]

\* calculateTimeout returns.
TimeoutReturn ==
  /\ call.fn = "calculateTimeout"
  /\ call.pc = "called"
  /\ call' = [call EXCEPT !.pc = "returned", !.result = calculateTimeout(call.size)]
  /\ UNCHANGED <<meeting, recording, runs, runsStarted, reprocessAccepted, reprocessSent, env, disk>>

\* ------------------------------------------------------------------------
\* Specifications
\* ------------------------------------------------------------------------
Step(r) ==
  \/ CalcTimeoutDone(r)
  \/ TimerFire(r)
  \/ StatDone(r)
  \/ DirectAnswer(r)
  \/ ConvertDone(r)
  \/ SplitStep(r)
  \/ DirectWavAnswer(r)
  \/ UnlinkWavDone(r)
  \/ ChunkAnswer(r)
  \/ SleepDone(r)
  \/ RecleanupDone(r)
  \/ CleanupDone(r)
  \/ SaveTranscriptDone(r)
  \/ AnalyzeDone(r)
  \/ SaveSummaryDone(r)

\* One meeting and the run its creation starts.
Next ==
  \/ \E rec \in Recordings : CreateMeeting(rec)
  \/ DeleteMeeting
  \/ \E r \in Runs : Step(r)

Spec == Init /\ [][Next]_vars

\* One meeting, its first run and the runs of the reprocess requests.
NextRuns ==
  \/ \E rec \in RecordingsRuns : CreateMeeting(rec)
  \/ Reprocess
  \/ ReprocessNotFound
  \/ DeleteMeeting
  \/ \E r \in Runs : Step(r)

SpecRuns == InitRuns /\ [][NextRuns]_vars

\* A call of splitIntoChunks for every total duration and chunk duration.
NextPlan ==
  \/ SplitCallStep
  \/ SplitCallThrow

SpecPlan == InitPlan /\ [][NextPlan]_vars

\* A call of mergeTranscripts, and then calls on the two parts of its argument.
NextMerge ==
  \/ MergeReturn
  \/ \E k \in 1..(Len(call.chunkResults) - 1) : MergeParts(k)

SpecMerge == InitMerge /\ [][NextMerge]_vars

\* Two meetings, each with the run of its creation, in every interleaving.
NextPair ==
  \E m \in Meetings :
    \/ PairConvertDone(m)
    \/ PairSplitStep(m)
    \/ PairDriveDone(m)
    \/ PairRecleanupDone(m)
    \/ PairCleanupDone(m)
    \/ PairSaveSummaryDone(m)

SpecPair == InitPair /\ [][NextPair]_vars

\* A failing request for every error of the client.
NextClassify == ClassifyThrow

SpecClassify == InitClassify /\ [][NextClassify]_vars

\* A call of calculateTimeout for every file size.
NextTimeout == TimeoutReturn

SpecTimeout == InitTimeout /\ [][NextTimeout]_vars

\* The deadline timer fires when it is due, and a stat of a local file ends;
\* requests and subprocesses may never return.
FairSpec ==
  /\ Spec
  /\ \A r \in Runs : WF_vars(TimerFire(r))
  /\ \A r \in Runs : WF_vars(CalcTimeoutDone(r))

\* ------------------------------------------------------------------------
\* Properties
\* ------------------------------------------------------------------------
Active(r) == runs[r].pc \notin {"none", "done", "failed"}
Terminal(m) == m.transcript.kind \in {"path", "error"}
FatalClasses == {"Unauthorized", "QuotaExceeded"}
TransientClasses == {"RateLimited", "Unknown"}

\* C1: once the deadline of a run has expired and the error marker is in the
\* transcript slot, no step of that run replaces the marker by a transcript
\* path.
C1_NoLateSuccess ==
  [][\A r \in Runs :
       (/\ runs[r].outerErr = "TIMED_OUT"
        /\ meeting.transcript.kind = "error")
       => ~(Active(r) /\ meeting'.transcript = PathSlot(runs[r].id))]_vars

\* C2: every run of a meeting that still exists leads to a row in a terminal
\* state (a transcript path or the error marker), even if a request or a
\* subprocess never returns.
C2_RunEndsTerminal ==
  \A r \in Runs :
    (runs[r].outer \in {"calc", "await"}) ~> (meeting.row # "present" \/ Terminal(meeting))

\* A request was never answered, the timer fired and the marker was written.
C2_Witness ==
  \E r \in Runs :
    /\ runs[r].pc \in {"direct", "req"}
    /\ runs[r].outerErr = "TIMED_OUT"
    /\ meeting.transcript = ErrorSlot("TIMED_OUT")

\* C3: when a step of the pipeline throws while processMeeting awaits it, or
\* the deadline expires, the catch block runs and leaves the row with the
\* marker 'ERROR: <reason>' of that error, no summary and duration 0.
C3_FailureWritesSentinel ==
  [][\A r \in Runs :
       /\ (runs[r].outer = "await" /\ Active(r) /\ runs'[r].pc = "failed")
          => (runs'[r].outer = "failed" /\ runs'[r].outerErr = runs'[r].err)
       /\ (runs[r].outer # "failed" /\ runs'[r].outer = "failed" /\ meeting.row = "present")
          => /\ runs'[r].outerErr # "none"
             /\ meeting'.transcript = ErrorSlot(runs'[r].outerErr)
             /\ meeting'.summary = NullSlot
             /\ meeting'.duration = 0]_vars

\* The second drive was answered 413 too, and the row carries the marker.
C3_Witness ==
  \E r \in Runs :
    /\ runs[r].outer = "failed"
    /\ runs[r].err = "RECHUNK_NEEDED"
    /\ meeting.transcript = ErrorSlot("RECHUNK_NEEDED")
    /\ meeting.duration = 0

\* C4: runs are started by the creation of the meeting and by accepted
\* reprocess requests only: the runs started number 1 plus the accepted
\* requests, whatever way the earlier runs ended.
C4_RunsStarted ==
  /\ meeting.row # "none" => runsStarted = 1 + reprocessAccepted
  /\ \A r \in Runs : runs[r].id <= 1 + reprocessAccepted

\* Two runs have ended, the last one in failure, and no run is active.
C4_Witness ==
  /\ reprocessAccepted = 1
  /\ runsStarted = 2
  /\ meeting.transcript.kind = "error"
  /\ \A r \in Runs : ~Active(r) /\ runs[r].outer \notin {"calc", "await"}

\* C5: an accepted reprocess request leaves the row with empty transcript
\* and summary slots and duration 0, and starts a run that is at its first
\* step with no plan, no results and no drive behind it; the other runs are
\* left as they are.
C5_ReprocessStartsFresh ==
  [][reprocessAccepted' # reprocessAccepted =>
       /\ meeting'.transcript = NullSlot
       /\ meeting'.summary = NullSlot
       /\ meeting'.duration = 0
       /\ \E r \in Runs :
            /\ runs[r].id # runsStarted'
            /\ runs'[r] = [IdleRun EXCEPT !.id = runsStarted', !.outer = "calc"]
            /\ \A q \in Runs \ {r} : runs'[q] = runs[q]]_vars

\* The run of a reprocess request is at its first step while the earlier run
\* is in its drive with results.
C5_Witness ==
  /\ reprocessAccepted = 1
  /\ meeting.transcript = NullSlot
  /\ meeting.duration = 0
  /\ \E r, q \in Runs :
       /\ runs[r].id = 2 /\ runs[r].outer = "calc" /\ runs[r].chunks = << >>
       /\ runs[q].id = 1 /\ runs[q].pc = "req" /\ Len(runs[q].results) > 0

\* C6: within a drive at most one request is unanswered; the request for
\* chunk i is sent when the results hold exactly the chunks 0..i-1; the
\* results are in the order of the plan, and a drive returns one result for
\* every entry of the plan.
C6_SequentialInOrder ==
  \A r \in Runs :
    /\ Cardinality(runs[r].inflight) <= 1
    /\ \A k \in 1..Len(runs[r].results) :
         runs[r].results[k].chunk = runs[r].chunks[k] /\ runs[r].results[k].chunk.index = k - 1
    /\ runs[r].pc = "req" =>
         /\ runs[r].inflight = {runs[r].i}
         /\ runs[r].chunks[runs[r].i + 1].index = runs[r].i
         /\ Len(runs[r].results) = runs[r].i
    /\ runs[r].pc = "sleep" => (runs[r].inflight = {} /\ Len(runs[r].results) = runs[r].i)
    /\ runs[r].pc = "cleanup" => Len(runs[r].results) = Len(runs[r].chunks)

\* The third chunk of a plan is requested after a retry, two results are in.
C6_Witness ==
  \E r \in Runs :
    /\ runs[r].pc = "req"
    /\ runs[r].i = 2
    /\ runs[r].attempt > 0
    /\ Len(runs[r].results) = 2

\* C7: after a request of a drive is answered Unauthorized or QuotaExceeded
\* the drive has failed: no backoff delay is taken and no request follows.
C7_FatalFailsImmediately ==
  \A r \in Runs : runs[r].lastClass \in FatalClasses => runs[r].pc = "failed"

\* C8: a chunk is requested at most 6 times in a drive; a sixth request
\* answered with a transient error ends the drive, and the drive ends this
\* way only then, with the error naming that chunk; a run that has failed
\* sends no request and starts no drive.
C8_Exhausted ==
  /\ [](\A r \in Runs : runs[r].reqs <= 6)
  /\ [][\A r \in Runs :
          /\ (runs[r].pc = "req" /\ runs[r].reqs = 6 /\ runs'[r].lastClass \in TransientClasses)
             => (runs'[r].pc = "failed" /\ runs'[r].err = "CHUNK_FAILED_AFTER_RETRIES")
          /\ (runs[r].err = "none" /\ runs'[r].err = "CHUNK_FAILED_AFTER_RETRIES")
             => /\ runs[r].pc = "req"
                /\ runs[r].reqs = 6
                /\ runs'[r].errChunk = runs[r].i
                /\ runs'[r].pc = "failed"
                /\ runs'[r].inflight = {}
          /\ runs[r].pc = "failed"
             => (runs'[r].pc \in {"failed", "none"} /\ runs'[r].inflight = {}
                 /\ runs'[r].drives = << >>)]_vars

\* The second chunk of a plan got six failing requests.
C8_Witness ==
  \E r \in Runs :
    /\ runs[r].pc = "failed"
    /\ runs[r].err = "CHUNK_FAILED_AFTER_RETRIES"
    /\ runs[r].errChunk = 1
    /\ runs[r].lastClass \in TransientClasses

C10_SecondDriveSmaller ==
  \A r \in Runs : Len(runs[r].drives) >= 2 => runs[r].drives[2] < runs[r].drives[1]

\* C11: a run drives at most two plans: no split starts after a second drive,
\* and a second drive answered PayloadTooLarge ends the run with
\* RECHUNK_NEEDED, which the catch block of a run that is still awaited
\* writes to the row as the error marker.
C11_AtMostTwoPlans ==
  /\ [](\A r \in Runs :
          /\ Len(runs[r].drives) <= 2
          /\ runs[r].pc \in {"split", "recleanup"} => Len(runs[r].drives) <= 1)
  /\ [][\A r \in Runs :
          (runs[r].pc = "req" /\ Len(runs[r].drives) = 2
           /\ runs'[r].lastClass = "PayloadTooLarge")
          => /\ runs'[r].pc = "failed"
             /\ runs'[r].err = "RECHUNK_NEEDED"
             /\ runs[r].outer = "await"
                => /\ runs'[r].outer = "failed"
                   /\ meeting.row = "present"
                      => meeting'.transcript = ErrorSlot("RECHUNK_NEEDED")]_vars

\* A plan of 600s chunks and then one of 300s chunks were answered 413: the
\* run has failed and the row carries the marker.
C11_Witness ==
  \E r \in Runs :
    /\ recording.origMB < LARGE_FILE_MB
    /\ runs[r].pc = "failed"
    /\ runs[r].lastClass = "PayloadTooLarge"
    /\ runs[r].err = "RECHUNK_NEEDED"
    /\ runs[r].outer = "failed"
    /\ meeting.transcript = ErrorSlot("RECHUNK_NEEDED")

\* C12: within a drive a failed request pushes no result and its retry asks
\* for the same chunk again; the request that succeeds, the first or a retry,
\* pushes exactly the result of its chunk at the end of the results; so
\* result k is that of entry k of the plan and a drive that returns holds
\* one result per entry.
C12_RetriedChunkOnce ==
  /\ [](\A r \in Runs :
          /\ Len(runs[r].results) <= Len(runs[r].chunks)
          /\ \A k \in 1..Len(runs[r].results) : runs[r].results[k].chunk = runs[r].chunks[k]
          /\ runs[r].pc = "cleanup" => Len(runs[r].results) = Len(runs[r].chunks))
  /\ [][\A r \in Runs :
          /\ (runs[r].pc = "req" /\ runs'[r].pc = "sleep")
             => /\ runs'[r].results = runs[r].results
                /\ runs'[r].i = runs[r].i
                /\ runs'[r].attempt = runs[r].attempt + 1
          /\ (runs[r].pc = "sleep" /\ runs'[r].pc = "req")
             => /\ runs'[r].results = runs[r].results
                /\ runs'[r].i = runs[r].i
                /\ runs'[r].inflight = {runs[r].i}
          /\ (runs[r].pc = "req" /\ runs'[r].pc \in {"req", "cleanup"}
              /\ runs'[r].inflight # runs[r].inflight)
             => runs'[r].results
                  = Append(runs[r].results, [chunk |-> runs[r].chunks[runs[r].i + 1]])]_vars

\* The last of three chunks failed twice and then succeeded: the drive has
\* returned three results.
C12_Witness ==
  \E r \in Runs :
    /\ runs[r].pc = "cleanup"
    /\ runs[r].attempt = 2
    /\ Len(runs[r].chunks) = 3
    /\ Len(runs[r].results) = 3

\* The least n with n * c >= d.
CeilDiv(d, c) == (d + c - 1) \div c

\* C13: the chunks splitIntoChunks returns for a total duration D > 0 and a
\* chunk duration C > 0 are ceil(D/C) entries, entry k having index k; the
\* first window starts at 0, every window starts where the one before it
\* ends, the last one ends at D, and every window is longer than 0 and at
\* most C long.
C13_WindowsCoverExactly ==
  (call.fn = "splitIntoChunks" /\ call.pc = "returned") =>
    LET chunks == call.chunks
        n == Len(chunks)
    IN /\ n = CeilDiv(call.durationSeconds, call.chunkDuration)
       /\ \A k \in 1..n : chunks[k].index = k - 1
       /\ chunks[1].startTime = 0
       /\ \A k \in 1..(n - 1) : chunks[k + 1].startTime = chunks[k].endTime
       /\ chunks[n].endTime = call.durationSeconds
       /\ \A k \in 1..n :
            /\ 0 < chunks[k].endTime - chunks[k].startTime
            /\ chunks[k].endTime - chunks[k].startTime <= call.chunkDuration

\* 1800s in chunks of 600s: [0,600), [600,1200), [1200,1800).
C13_Witness ==
  /\ call.fn = "splitIntoChunks"
  /\ call.pc = "returned"
  /\ call.durationSeconds = 1800
  /\ call.chunkDuration = 600
  /\ [k \in 1..Len(call.chunks) |-> <<call.chunks[k].startTime, call.chunks[k].endTime>>]
       = << <<0, 600>>, <<600, 1200>>, <<1200, 1800>> >>

\* C14: the file of an entry with index >= 1 is extracted from
\* max(0, startTime - 2) of the waveform, which is not after startTime; the
\* file of the entry with index 0 is extracted from 0.
C14_SeekStart ==
  call.fn = "splitIntoChunks" =>
    \A k \in 1..Len(call.chunks) :
      LET entry == call.chunks[k]
      IN /\ entry.index >= 1
            => /\ entry.seekStart = Max(0, entry.startTime - 2)
               /\ entry.seekStart >= 0
               /\ entry.seekStart <= entry.startTime
         /\ entry.index = 0 => entry.seekStart = 0

\* The second file of 1800s in chunks of 600s is extracted from 598.
C14_Witness ==
  /\ call.fn = "splitIntoChunks"
  /\ \E k \in 1..Len(call.chunks) :
       /\ call.chunks[k].index = 1
       /\ call.chunks[k].startTime = 600
       /\ call.chunks[k].seekStart = 598

\* C15: the segments of a transcript merged from the results of a plan are in
\* non-decreasing order of start, when the segments of every chunk are
\* ordered and lie within the chunk's file.
C15_SegmentsOrdered ==
  (call.fn = "mergeTranscripts" /\ call.pc = "returned") =>
    \A j, k \in 1..Len(call.result.segments) :
      j < k => call.result.segments[j].start <= call.result.segments[k].start

\* The texts joined by one space.
RECURSIVE JoinTexts(_)
JoinTexts(chunkResults) ==
  IF chunkResults = << >> THEN << >>
  ELSE IF Len(chunkResults) = 1 THEN chunkResults[1].transcription.text
  ELSE chunkResults[1].transcription.text \o <<" ">> \o JoinTexts(Tail(chunkResults))

\* The segments of the results before result k.
RECURSIVE SegmentsBefore(_, _)
SegmentsBefore(chunkResults, k) ==
  IF k = 1 THEN 0
  ELSE SegmentsBefore(chunkResults, k - 1) + Len(chunkResults[k - 1].transcription.segments)

\* The result has every segment of every chunk once, in the order of the
\* results and of the chunk, start and end increased by the startTime of the
\* chunk; its duration is the greatest endTime; the argument is as it was given.
MergeKeepsSegments ==
  LET given == call.given
      merged == call.result
  IN /\ Len(merged.segments) = SegmentsBefore(given, Len(given) + 1)
     /\ \A k \in 1..Len(given) :
          \A n \in 1..Len(given[k].transcription.segments) :
            LET segment == given[k].transcription.segments[n]
                shifted == merged.segments[SegmentsBefore(given, k) + n]
            IN /\ shifted.id = segment.id
               /\ shifted.start = segment.start + given[k].chunk.startTime
               /\ shifted.end = segment.end + given[k].chunk.startTime
     /\ \A k \in 1..Len(given) : given[k].chunk.endTime <= merged.duration
     /\ \E k \in 1..Len(given) : given[k].chunk.endTime = merged.duration
     /\ call.chunkResults = given

\* C16, as stated: segments, duration and argument as above, and the text is
\* the texts joined by one space with every run of whitespace collapsed.
C16_MergeAsStated ==
  (call.fn = "mergeTranscripts" /\ call.pc = "returned") =>
    /\ MergeKeepsSegments
    /\ call.result.text = CollapseWhitespace(JoinTexts(call.given))

\* C16: mergeTranscripts returns a function of its argument and leaves the
\* argument as it was: every segment of every chunk once, in order, start and
\* end increased by the chunk's startTime; the greatest endTime as duration;
\* as text the texts joined by one space, without whitespace at its start and
\* end, and with every run of whitespace inside collapsed to one space.
C16_MergeFunction ==
  (call.fn = "mergeTranscripts" /\ call.pc = "returned") =>
    /\ call.result = mergeTranscripts(call.given)
    /\ MergeKeepsSegments
    /\ call.result.text = CollapseWhitespace(trim(JoinTexts(call.given)))

\* Three results with two segments each, the texts with whitespace at the
\* start, at the end and inside.
C16_Witness ==
  /\ call.fn = "mergeTranscripts"
  /\ call.pc = "returned"
  /\ Len(call.given) = 3
  /\ call.given[1].transcription.text = <<" ", "a">>
  /\ call.given[3].transcription.text = <<"b", "\n">>
  /\ call.result.text = <<"a", " ", "a", " ", "b", " ", "b">>
  /\ Len(call.result.segments) = 6
  /\ call.result.segments[3].start = 600
  /\ call.result.duration = 1800

\* Two merged transcripts combined: texts joined and normalized, segments
\* concatenated, the greater duration.
Combine(left, right) ==
  [text |-> CollapseWhitespace(trim(left.text \o <<" ">> \o right.text)),
   duration |-> Max(left.duration, right.duration),
   segments |-> left.segments \o right.segments]

\* C17: for every split of the results in the first k and the others, the
\* merged transcripts of the two parts combined have the text, the segments
\* and the duration of the merged transcript of all results.
C17_MergeAssociative ==
  (call.fn = "mergeTranscripts" /\ call.pc = "parts") =>
    LET combined == Combine(call.left, call.right)
    IN /\ combined.text = call.result.text
       /\ combined.segments = call.result.segments
       /\ combined.duration = call.result.duration

\* Three results split after the first one; the other part has segments
\* that are shifted, and both parts have text.
C17_Witness ==
  /\ call.fn = "mergeTranscripts"
  /\ call.pc = "parts"
  /\ call.k = 1
  /\ Len(call.given) = 3
  /\ Len(call.left.segments) = 2
  /\ Len(call.right.segments) = 4
  /\ call.right.segments[1].start = 600
  /\ call.left.text # << >>
  /\ call.right.text # << >>

Minutes(n) == n * 60 * 1000
MB(n) == n * 1024 * 1024

\* C19: for a file whose size is known, calculateTimeout gives 5 minutes
\* under 10MB, 10 minutes from 10MB to under 30MB, 15 minutes from 30MB to
\* under 50MB, 30 minutes from 50MB to under 80MB and 45 minutes from 80MB;
\* no smaller file gets a longer deadline.
C19_DeadlineTable ==
  (call.fn = "calculateTimeout" /\ call.pc = "returned" /\ call.size # StatFailed) =>
    /\ call.size < MB(10) => call.result = Minutes(5)
    /\ (MB(10) <= call.size /\ call.size < MB(30)) => call.result = Minutes(10)
    /\ (MB(30) <= call.size /\ call.size < MB(50)) => call.result = Minutes(15)
    /\ (MB(50) <= call.size /\ call.size < MB(80)) => call.result = Minutes(30)
    /\ MB(80) <= call.size => call.result = Minutes(45)
    /\ \A smaller \in FileSizes :
         smaller <= call.size => calculateTimeout(smaller) <= call.result

\* A file one byte short of 50MB got 15 minutes.
C19_Witness ==
  /\ call.fn = "calculateTimeout"
  /\ call.pc = "returned"
  /\ call.size = MB(50) - 1
  /\ call.result = Minutes(15)

\* C20: the first plan of a run, and so its first drive, has chunks of 300s
\* when the uploaded file has 50MB or more and of 600s otherwise.  The
\* deadline of the run is that of the size of the uploaded file (or the
\* default one when the size could not be read) and stays as it was
\* computed: a run for a file of 90MB has 45 minutes and chunks of 300s.
C20_FirstChunkDuration ==
  /\ [](\A r \in Runs :
          LET first == IF recording.origMB >= 50 THEN 300 ELSE 600
          IN /\ (runs[r].pc = "split" /\ runs[r].drives = << >>) => runs[r].chunkDuration = first
             /\ runs[r].drives # << >> => runs[r].drives[1] = first
             /\ runs[r].outer = "await"
                  => runs[r].timeout \in {calculateTimeout(MB(recording.origMB)),
                                          calculateTimeout(StatFailed)})
  /\ [][\A r \in Runs :
          (runs[r].outer = "await" /\ runs'[r].id = runs[r].id)
          => runs'[r].timeout = runs[r].timeout]_vars

\* The first drive of the run for a file of 90MB is over chunks of 300s, and
\* the deadline of the run is 45 minutes.
C20_Witness ==
  \E r \in Runs :
    /\ recording.origMB = 90
    /\ runs[r].pc = "req"
    /\ runs[r].drives = <<300>>
    /\ runs[r].chunks[1].endTime = 300
    /\ runs[r].timeout = Minutes(45)

\* The class the rules give, taken in the order they are stated.
StatedClass(error) ==
  IF error.status = 413 \/ "413" \in error.words THEN "PayloadTooLarge"
  ELSE IF error.status = 429 THEN "RateLimited"
  ELSE IF error.status = 401 THEN "Unauthorized"
  ELSE IF \/ error.status = 402
          \/ error.code = "insufficient_quota"
          \/ error.words \cap {"billing", "credit", "quota"} # {}
    THEN "QuotaExceeded"
  ELSE "Unknown"

\* C21: the error transcribeSingleFile throws for an error of the client is
\* of the class the rules give: 413 or a size indicator in the message is
\* PayloadTooLarge, 429 RateLimited, 401 Unauthorized, 402 or a billing,
\* credit or quota keyword QuotaExceeded, anything else Unknown; a status of
\* 413 is PayloadTooLarge whatever the message says.
C21_Taxonomy ==
  (call.fn = "transcribeSingleFile" /\ call.pc = "thrown") =>
    /\ call.error.status = 413 => ErrorClass(call.thrown) = "PayloadTooLarge"
    /\ ErrorClass(call.thrown) = StatedClass(call.error)


\* C22: when a run has recorded a failure and its inner function has ended,
\* and no unlink fails, the chunk files and the converted waveform that the
\* run has written are deleted: none is in the temporary directories.
C22_FailureDeletesFiles ==
  \A r \in Runs :
    (/\ runs[r].outer = "failed"
     /\ runs[r].pc = "failed"
     /\ runs[r].outerErr = runs[r].err
     /\ env.stuck = {})
    => disk = {}


\* C23: when transcribeWithRetry has returned a transcript and no unlink
\* fails, no chunk file of either plan and no converted waveform is left in
\* the temporary directories.
C23_SuccessLeavesNoFiles ==
  /\ \A r \in Runs :
       (runs[r].pc \in {"save", "analyze", "saveSummary", "done"} /\ env.stuck = {})
         => disk = {}
  /\ \A r \in Runs :
       (runs[r].pc = "split" /\ Len(runs[r].drives) = 1 /\ env.stuck = {})
         => Paths(disk) \subseteq
              {wavPath(MeetingId)} \cup ChunkPaths(wavPath(MeetingId), runs[r].chunks)

\* A recording that is converted and split has been transcribed, and the
\* temporary directories are empty.
C23_Witness ==
  \E r \in Runs :
    /\ runs[r].pc = "save"
    /\ recording.origMB > SIZE_THRESHOLD_MB
    /\ recording.wavMB > TARGET_SIZE_MB
    /\ env.stuck = {}
    /\ disk = {}

\* C24: an unlink that fails changes nothing but the file it leaves: every
\* other file of the list is deleted, cleanupChunks returns, and the run
\* goes on to the step that follows, with the transcript it had.
C24_DeleteFailureSwallowed ==
  [][\A r \in Runs :
       /\ (runs[r].pc = "cleanup" /\ runs'[r].pc # "cleanup")
          => /\ runs'[r].pc = "save"
             /\ runs'[r].duration = runs[r].duration
             /\ disk' = {file \in disk : Path(file) \in env.stuck}
       /\ (runs[r].pc = "unlinkWav" /\ runs'[r].pc # "unlinkWav")
          => /\ runs'[r].pc = "save"
             /\ runs'[r].duration = runs[r].duration
             /\ disk' = {file \in disk : Path(file) \in env.stuck}
       /\ (runs[r].pc = "recleanup" /\ runs'[r].pc # "recleanup")
          => /\ runs'[r].pc = "split"
             /\ runs'[r].chunkDuration = RECHUNK_DURATION
             /\ disk' = {file \in disk : Path(file) \in env.stuck \cup {wavPath(MeetingId)}}]_vars

\* The unlink of chunk 0 failed: the other chunk files and the converted
\* waveform are deleted and the transcript is returned.
C24_Witness ==
  \E r \in Runs :
    /\ runs[r].pc = "save"
    /\ env.stuck = {chunkPath(wavPath(MeetingId), 0)}
    /\ Paths(disk) = env.stuck


\* The files in the temporary directories whose names embed the id m.
FilesOf(files, m) == {f \in files : f.meeting = m}

\* C25: a step of the run of one meeting leaves the row of the other meeting
\* as it is, and creates and deletes only files whose names embed the id of
\* its own meeting: the files of the other meeting's run stay as they are.
C25_RunsOfTwoMeetingsDisjoint ==
  [][call.fn = "processMeeting" =>
       \E m \in Meetings :
         /\ \A n \in Meetings \ {m} :
              /\ call'.rows[n] = call.rows[n]
              /\ call'.run[n] = call.run[n]
              /\ FilesOf(disk', n) = FilesOf(disk, n)
         /\ \A f \in (disk' \ disk) \cup (disk \ disk') : f.meeting = m
         /\ \A f \in disk' : f.meeting \in Meetings]_vars

\* The run of meeting 1 has ended with its transcript and has deleted its
\* files while the chunk files of meeting 2 are being transcribed: they and
\* the converted waveform of meeting 2 are all there, and the row of meeting
\* 2 is as it was created.
C25_Witness ==
  /\ call.fn = "processMeeting"
  /\ call.rows[1].transcript = PathSlot(1)
  /\ call.run[2].pc = "drive"
  /\ call.rows[2].transcript = NullSlot
  /\ Paths(disk) = {wavPath(2)} \cup ChunkPaths(wavPath(2), call.run[2].chunks)
  /\ Len(call.run[2].chunks) >= 2


\* C26: after the deadline of a run has expired, the run sends no request
\* to the speech-to-text service that was not in flight already, and writes
\* no transcript path to the row.
C26_AbandonedRunStops ==
  [][\A r \in Runs :
       (runs[r].outerErr = "TIMED_OUT" /\ Active(r))
         => /\ \/ runs'[r].inflight = {}
               \/ /\ runs'[r].inflight = runs[r].inflight
                  /\ runs'[r].reqs = runs[r].reqs
                  /\ runs'[r].drives = runs[r].drives
            /\ (meeting'.transcript # meeting.transcript)
                 => meeting'.transcript.kind # "path"]_vars


\* The delays before the retries of a chunk, in milliseconds.
StatedDelays == <<5000, 10000, 20000, 40000, 80000>>

\* C27: the driver waits 2^k * 2.5 seconds before the k-th retry of a chunk,
\* k = 1..5: 5s, 10s, 20s, 40s and 80s.  It waits only after a request that
\* failed, so not before the first request of a chunk, and the first delay
\* of every chunk is 5s.
C27_BackoffDelays ==
  [][\A r \in Runs :
       /\ (runs[r].pc # "sleep" /\ runs'[r].pc = "sleep")
          => /\ runs[r].pc = "req"
             /\ runs'[r].attempt = runs[r].attempt + 1
             /\ runs'[r].attempt \in 1..5
             /\ runs'[r].delay = StatedDelays[runs'[r].attempt]
             /\ runs'[r].delay * 2 = Pow2(runs'[r].attempt) * 5000
             /\ runs[r].reqs = 1 => runs'[r].delay = 5000
       /\ (runs[r].pc = "sleep" /\ runs'[r].pc # "sleep")
          => /\ runs'[r].pc = "req"
             /\ runs'[r].i = runs[r].i
             /\ runs'[r].reqs = runs[r].reqs + 1
       /\ (runs'[r].pc = "req" /\ runs'[r].reqs = 1)
          => /\ runs[r].pc # "sleep"
             /\ runs'[r].attempt = 0
             /\ runs'[r].delay = 0]_vars

\* Chunk 1 has failed five times on its own count: the driver waits 80s
\* before its fifth retry.
C27_Witness ==
  \E r \in Runs :
    /\ runs[r].pc = "sleep"
    /\ runs[r].i = 1
    /\ runs[r].attempt = 5
    /\ runs[r].reqs = 5
    /\ runs[r].delay = 80000


\* C28: a call of splitIntoChunks in which the extraction of a window fails
\* ends with an error and gives its caller no entry; the entries a caller
\* gets are never only a part of the plan: they start at 0 and end at the
\* total duration.
C28_NoPartialPlan ==
  call.fn = "splitIntoChunks" =>
    /\ call.pc = "thrown" => call.chunks = << >>
    /\ call.pc = "returned" =>
         /\ call.chunks # << >>
         /\ call.chunks[1].startTime = 0
         /\ call.chunks[Len(call.chunks)].endTime = call.durationSeconds

\* 1800s in chunks of 600s: the third window failed after two were
\* extracted, and the call has ended with the error and no entries.
C28_Witness ==
  /\ call.fn = "splitIntoChunks"
  /\ call.pc = "thrown"
  /\ call.durationSeconds = 1800
  /\ call.chunkDuration = 600
  /\ call.startTime = 1200
  /\ call.chunks = << >>


\* C29: at most one run of the meeting is active at any time: no two calls
\* of processMeeting for it have their inner functions running together,
\* and so no two of them have a request to the speech-to-text service in
\* flight together.
C29_OneRunRequesting ==
  \A r, q \in Runs :
    (Active(r) /\ Active(q) /\ runs[r].inflight # {} /\ runs[q].inflight # {}) => r = q


\* C30: a run that has written the success state to the row in step 5 does
\* not write the error marker afterwards: no step leaves the row with the
\* marker of the error that such a run has caught.
C30_NoErrorAfterSuccess ==
  \A r \in Runs :
    ~(/\ runs[r].updated
      /\ runs[r].outer = "failed"
      /\ meeting.transcript = ErrorSlot(runs[r].outerErr)
      /\ meeting.duration = 0)


\* C31: a direct request for a whole file (the upload of at most 24MB, or
\* the converted waveform of at most 24MB) that is answered with a transient
\* error (RateLimited, Unknown) does not end the run: the request is sent
\* again after a delay, as for a chunk.
C31_DirectRequestRetried ==
  [][\A r \in Runs :
       (runs[r].pc \in {"direct", "directWav"} /\ runs'[r].pc = "failed")
         => ErrorClass(runs'[r].err) \notin TransientClasses]_vars


\* C32: a direct request for a whole file that is answered PayloadTooLarge,
\* on the upload or on the converted waveform, does not end the run: the
\* error is not thrown out of transcribeWithRetry.
C32_DirectPayloadTooLargeGoesOn ==
  [][\A r \in Runs :
       (runs[r].pc \in {"direct", "directWav"} /\ runs'[r].pc # runs[r].pc)
         => ~(runs'[r].pc = "failed" /\ runs'[r].err = "PAYLOAD_TOO_LARGE")]_vars


\* The file of entry `entry` of a plan for the meeting's waveform.
ChunkFile(entry) ==
  [meeting |-> MeetingId, chunk |-> entry.index, audio |-> ChunkAudio(entry, recording.dur)]

\* C33: after RECHUNK_NEEDED the chunk files of the failed plan are deleted
\* before the files of the new plan are written under the same names: while
\* the new plan is being written, every chunk file in the directory that
\* could be deleted is a file of the new plan, and during the second drive
\* the file of every entry of the new plan is there and holds the audio of
\* that entry, so no request of the second drive sends a file of the old plan.
C33_SecondPlanFiles ==
  \A r \in Runs :
    /\ (runs[r].pc = "split" /\ Len(runs[r].drives) = 1)
       => \A file \in disk :
            (file.chunk # NoChunk /\ Path(file) \notin env.stuck)
              => \E k \in 1..Len(runs[r].chunks) : file = ChunkFile(runs[r].chunks[k])
    /\ (runs[r].pc \in {"req", "sleep"} /\ Len(runs[r].drives) = 2)
       => \A k \in 1..Len(runs[r].chunks) : ChunkFile(runs[r].chunks[k]) \in disk

\* 800s, first split in 600s chunks and then in 300s chunks: the second
\* drive has started, the unlink of the old chunk 0 had failed, and the
\* three files hold [0,300), [298,600) and [598,800).
C33_Witness ==
  \E r \in Runs :
    /\ runs[r].pc = "req"
    /\ runs[r].drives = <<600, 300>>
    /\ recording.dur = 800
    /\ env.stuck = {chunkPath(wavPath(MeetingId), 0)}
    /\ {<<file.chunk, file.audio>> : file \in disk}
         = {<<NoChunk, <<0, 800>> >>, <<0, <<0, 300>> >>, <<1, <<298, 600>> >>, <<2, <<598, 800>> >>}


\* C34: the row of a meeting created with audio is always in one of three
\* states: in progress (no transcript path, no summary path), succeeded (a
\* transcript path and a summary path), or failed (the 'ERROR:' marker, no
\* summary path, duration 0).  A transcript path without a summary path and
\* a marker with another duration do not occur.
C34_RowWellFormed ==
  meeting.row = "present" =>
    \/ /\ meeting.transcript.kind = "null"
       /\ meeting.summary.kind = "null"
    \/ /\ meeting.transcript.kind = "path"
       /\ meeting.summary.kind = "path"
    \/ /\ meeting.transcript.kind = "error"
       /\ meeting.summary.kind = "null"
       /\ meeting.duration = 0

\* The run of a reprocess request has written its transcript and summary
\* paths while the first run of the meeting is still going on.
C34_Witness ==
  /\ meeting.row = "present"
  /\ meeting.transcript = PathSlot(2)
  /\ meeting.summary = PathSlot(2)
  /\ meeting.duration > 0
  /\ \E r \in Runs : runs[r].id = 1 /\ Active(r)


\* C35: the file of every plan entry ends at the entry's endTime, for every
\* total duration and every chunk duration, also one below the overlap of 2
\* seconds: the overlap moves the start of the file only.
C35_FileEndsAtEndTime ==
  call.fn = "splitIntoChunks" =>
    \A k \in 1..Len(call.chunks) :
      ChunkAudio(call.chunks[k], call.durationSeconds)[2] = call.chunks[k].endTime


\* ------------------------------------------------------------------------
\* Progress events of a drive
\* ------------------------------------------------------------------------
\* Run r is inside a call of transcribeChunks, or has just left it to clean
\* up (after the last transcription, or after PAYLOAD_TOO_LARGE).
InDrive(r) == runs[r].pc \in {"req", "sleep", "recleanup", "cleanup"}

FinishedBeforeDeadline(r) ==
  /\ runs[r].timer = "armed"
  /\ runs[r].outer \in {"done", "failed"}

\* C37: when the timer of a run that finished before its deadline fires,
\* nothing but the timer changes: the row, the files and the other runs are
\* as they were, and nothing of the run is left.
C37_StaleTimerNoEffect ==
  [][\A r \in Runs :
       (FinishedBeforeDeadline(r) /\ runs'[r].timer # "armed")
         => /\ meeting' = meeting
            /\ disk' = disk
            /\ runs'[r] = IdleRun
            /\ \A q \in Runs \ {r} : runs'[q] = runs[q]]_vars

\* The only run of a meeting failed at the conversion before its deadline
\* and its timer has fired since: no run is left and the row still records
\* the conversion failure.  (Had the timer fired first, the row would record
\* the timeout.)
C37_Witness ==
  /\ runsStarted = 1
  /\ reprocessSent = 0
  /\ \A r \in Runs : runs[r] = IdleRun
  /\ meeting.row = "present"
  /\ meeting.transcript = ErrorSlot("CONVERT_FAILED")

====
